---- MODULE Spec2Model ----
(***************************************************************************)
(* Model of src/util/submit-addon.js: the signAddon workflow               *)
(* (upload, validation poll, create or update, approval poll, download),   *)
(* the polling primitive Client.waitRetry with its two timers, and the     *)
(* response classification of Client.fetchJson.                            *)
(*                                                                         *)
(* JavaScript strings are modelled as sequences of string parts, so that   *)
(* template literals are concatenations; the empty sequence stands for     *)
(* the falsy values "", null and undefined.  An optional object is a       *)
(* sequence of length at most one.                                         *)
(***************************************************************************)
EXTENDS Integers, Sequences, FiniteSets

\* Bound: number of pollStatus invocations explored per waitRetry call.
MaxPolls == 3

(***************************************************************************)
(* Values                                                                  *)
(***************************************************************************)
Undefined == <<>>

Truthy(v) == v /= <<>>

Last(s) == s[Len(s)]

\* A thrown value / a returned value of an awaited call.
Throw(e) == [t |-> "throw", err |-> e]

Return(v) == [t |-> "return", value |-> v]

\* Inputs of signAddon: the optional record id and the channel.
Ids == {Undefined, <<"addon@id">>}

Channels == {<<"listed">>, <<"unlisted">>, <<"beta">>}

(***************************************************************************)
(* HTTP responses handed back by nodeFetch                                 *)
(***************************************************************************)
Statuses == {199, 200, 299, 302, 404, 499, 500, 503}

\* Number-to-string conversion of the template literal `${response.status}`.
StatusStr(s) ==
  CASE s = 199 -> "199" [] s = 200 -> "200" [] s = 299 -> "299"
    [] s = 302 -> "302" [] s = 404 -> "404" [] s = 499 -> "499"
    [] s = 500 -> "500" [] s = 503 -> "503"

StatusTexts == {<<>>, <<"Status Text">>}

\* A body either parses as JSON (response.json() resolves with json) or
\* does not (response.json() rejects).
NoJson == [parses |-> FALSE]

Json(v) == [parses |-> TRUE, json |-> v]

\* The responses whose body is one of bodies; ok is node-fetch's
\* Response.ok, true exactly for a status in 200..299.
Responses(bodies) ==
  {[status |-> s, statusText |-> st, ok |-> (s >= 200 /\ s < 300), body |-> b] :
     s \in Statuses, st \in StatusTexts, b \in bodies}

\* The ways an awaited this.fetch(...) can end: getAuthHeader rejects
\* before anything is sent, nodeFetch rejects, or nodeFetch resolves.
SignError == <<"signJWT failed">>

NetworkError == <<"request failed">>

FetchResults(r, bodies) ==
  IF r.phase = "signing" THEN {Throw(SignError)}
  ELSE {Throw(NetworkError)} \cup
       {[t |-> "response", response |-> x] : x \in Responses(bodies)}

(***************************************************************************)
(* Client.fetchJson                                                        *)
(***************************************************************************)
StatusError(errorMsg, response) ==
  errorMsg \o <<": ">> \o
  (IF Truthy(response.statusText) THEN response.statusText
   ELSE <<StatusStr(response.status)>>) \o <<".">>

JsonParseError == <<"invalid json response body">>

\* fr is the outcome of `await this.fetch(url, method, body)`.
fetchJson(fr, errorMsg) ==
  IF fr.t = "throw" THEN fr
  ELSE IF fr.response.status < 200 \/ fr.response.status >= 500
       THEN Throw(StatusError(errorMsg, fr.response))
  ELSE IF ~fr.response.body.parses THEN Throw(JsonParseError)
  ELSE IF ~fr.response.ok THEN Throw(StatusError(errorMsg, fr.response))
  ELSE Return(fr.response.body.json)

BadRequest == <<"Bad Request">>

GettingDetailsFailed == <<"Getting details failed.">>

\* What is remembered of the latest fetchJson call: the outcome fr of its
\* this.fetch, its error context and its own outcome.
FetchJsonCall(fr, errorMsg) ==
  [called |-> TRUE, fr |-> fr, errorMsg |-> errorMsg,
   out |-> fetchJson(fr, errorMsg)]

NoFetchJsonCall == [called |-> FALSE]

(***************************************************************************)
(* Response bodies of the service (spec section 6)                         *)
(***************************************************************************)
UploadBodies == {NoJson, Json([uuid |-> <<"u1">>])}

ValidationUrl == <<"https://amo/upload/u1/validation">>

ValidationBodies ==
  {NoJson} \cup
  {Json([processed |-> p, valid |-> v, uuid |-> u, url |-> ValidationUrl]) :
     p \in BOOLEAN, v \in BOOLEAN, u \in {Undefined, <<"u1">>}}

CreateBodies ==
  {NoJson} \cup
  {Json([guid |-> <<"generated@id">>, current_version |-> cv,
         latest_unlisted_version |-> luv]) :
     cv \in {<<>>, <<[id |-> 11]>>}, luv \in {<<>>, <<[id |-> 12]>>}}

ListingBodies ==
  {NoJson} \cup
  {Json([results |-> rs]) :
     rs \in {<<>>, <<[id |-> 21]>>, <<[id |-> 22], [id |-> 21]>>}}

\* An absolute URL starts with its scheme; anything else makes new URL() throw.
SignedUrl == <<"https:", "amo", "files", "signed.xpi">>

RelativeUrl == <<"files", "signed.xpi">>

ApprovalBodies ==
  {NoJson, Json([file |-> <<>>])} \cup
  {Json([file |-> <<[status |-> s, url |-> u]>>]) :
     s \in {<<"public">>, <<"unreviewed">>},
     u \in {Undefined, SignedUrl, RelativeUrl}} \cup
  {Json([file |-> <<[status |-> <<"disabled">>, url |-> SignedUrl]>>])}

\* The download response only matters through ok and the presence of a body.
DownloadBodies == {[present |-> TRUE], [present |-> FALSE]}

(***************************************************************************)
(* State                                                                   *)
(***************************************************************************)
VARIABLES
  id,             \* signAddon parameter id (Undefined: create a new add-on)
  channel,        \* signAddon parameter channel
  wf,             \* the signAddon call: its position, locals and result
  savedIds,       \* ids written by saveIdToFile, in order
  req,            \* the this.fetch call in progress, if any
  sent,           \* requests handed to nodeFetch, in order
  tokens,         \* number of getAuthHeader calls
  wr,             \* the latest waitRetry call: promise, timers, counters
  validated,      \* a validation poll returned processed and valid
  createData,     \* JSON of the successful create response, as <<data>>
  listingData,    \* JSON of the successful listing response, as <<data>>
  lastFetchJson,  \* latest fetchJson call and how it ended
  metaDataJson,   \* signAddon parameter metaDataJson
  jsonData,       \* JSON body of the create / update request, as <<data>>
  putResult,      \* how the this.fetch of the update request ended, as <<r>>
  downloadResult  \* how the download's fetch and saveToFile ended, as <<r>>

vars == <<id, channel, wf, savedIds, req, sent, tokens, wr, validated,
          createData, listingData, lastFetchJson, metaDataJson, jsonData,
          putResult, downloadResult>>

NoReq == [kind |-> "none", phase |-> "none", addonId |-> Undefined, versionId |-> 0]

\* Client.fetch up to its first await: getAuthHeader has been called.
fetch(kind, aid, vid) ==
  [kind |-> kind, phase |-> "signing", addonId |-> aid, versionId |-> vid]

\* The signAddon call. pc names the call it is awaiting; result is the
\* settlement of its promise.
NewCall ==
  [pc |-> "signAddon", result |-> [t |-> "pending"], uuid |-> Undefined,
   uploadUuid |-> Undefined, addonId |-> Undefined, newVersionId |-> 0,
   filename |-> Undefined]

\* Variant of reject in which the error is wrapped on its way up.
reject_Wraps(w, e) ==
  [w EXCEPT !.pc = "rejected", !.result = Throw(<<"Signing failed: ">> \o e)]

\* An error that leaves postNewAddon / putVersion / signAddon uncaught.
reject(w, e) == [w EXCEPT !.pc = "rejected", !.result = Throw(e)]

(***************************************************************************)
(* Client.waitRetry                                                        *)
(***************************************************************************)
\* A timer is "none" (never set), "pending", "fired" or "cleared".
clearTimeout(t) == IF t = "pending" THEN "cleared" ELSE t

NoWait ==
  [context |-> Undefined, outcome |-> "none", value |-> Undefined,
   err |-> Undefined, abortTimeout |-> "none", checkTimeout |-> "none",
   polls |-> 0, returned |-> <<>>]

\* Variant of settle in which a later settlement replaces an earlier one.
settle_Overwrites(w, outcome, value, err) ==
  IF w.outcome \in {"pending", "resolved", "timeout", "error"}
  THEN [w EXCEPT !.outcome = outcome, !.value = value, !.err = err]
  ELSE w

\* resolve / reject of the promise built by waitRetry: only the first
\* settlement takes effect.
settle(w, outcome, value, err) ==
  IF w.outcome = "pending"
  THEN [w EXCEPT !.outcome = outcome, !.value = value, !.err = err]
  ELSE w

\* Variant of waitRetry whose first poll waits for the interval timer.
waitRetry_InitialDelay(context) ==
  [context |-> context, outcome |-> "pending", value |-> Undefined,
   err |-> Undefined, abortTimeout |-> "pending", checkTimeout |-> "pending",
   polls |-> 0, returned |-> <<>>]

\* Variant of waitRetry that sets the interval timer besides polling.
waitRetry_AlsoSchedules(context) ==
  [context |-> context, outcome |-> "pending", value |-> Undefined,
   err |-> Undefined, abortTimeout |-> "pending", checkTimeout |-> "pending",
   polls |-> 1, returned |-> <<>>]

\* The promise executor: abortTimeout is set, pollStatus() is called.
waitRetry(context) ==
  [context |-> context, outcome |-> "pending", value |-> Undefined,
   err |-> Undefined, abortTimeout |-> "pending", checkTimeout |-> "none",
   polls |-> 1, returned |-> <<>>]

TimeoutError(context) == context \o <<": timeout.">>

\* Variant of abortTimeoutFired that cancels the polling without rejecting.
abortTimeoutFired_NoReject(w) ==
  [w EXCEPT !.abortTimeout = "fired", !.checkTimeout = clearTimeout(@)]

\* The abortTimeout callback.
abortTimeoutFired(w) ==
  settle([w EXCEPT !.abortTimeout = "fired",
                   !.checkTimeout = clearTimeout(@)],
         "timeout", Undefined, TimeoutError(w.context))

\* Variant of pollSuccess that falls through to the rescheduling.
pollSuccess_Reschedules(w, success) ==
  settle([w EXCEPT !.abortTimeout = clearTimeout(@),
                   !.checkTimeout = "pending",
                   !.returned = Append(@, success)],
         "resolved", success, Undefined)

\* pollStatus, `if (success)` branch.
pollSuccess(w, success) ==
  settle([w EXCEPT !.abortTimeout = clearTimeout(@),
                   !.returned = Append(@, success)],
         "resolved", success, Undefined)

\* pollStatus, else branch: still in progress.
pollAgain(w, success) ==
  [w EXCEPT !.checkTimeout = "pending", !.returned = Append(@, success)]

\* Variant of pollCatch that leaves the abort timer running.
pollCatch_KeepsAbortTimer(w, err) ==
  settle(w, "error", Undefined, err)

\* pollStatus, catch block.
pollCatch(w, err) ==
  settle([w EXCEPT !.abortTimeout = clearTimeout(@)], "error", Undefined, err)

Validation == <<"Validation">>

Approval == <<"Approval">>

ValidationFailed(url) ==
  <<"Validation failed, open the following URL for more information: ">> \o url

\* Variant of validationSuccessFunc that does not look at valid.
validationSuccessFunc_IgnoresValid(detailResponseData) ==
  IF ~detailResponseData.processed THEN Return(Undefined)
  ELSE Return(detailResponseData.uuid)

\* Variant of validationSuccessFunc that treats a rejection as not yet done.
validationSuccessFunc_RetriesInvalid(detailResponseData) ==
  IF ~detailResponseData.processed THEN Return(Undefined)
  ELSE IF detailResponseData.valid THEN Return(detailResponseData.uuid)
  ELSE Return(Undefined)

\* successFunc of waitForValidation
validationSuccessFunc(detailResponseData) ==
  IF ~detailResponseData.processed THEN Return(Undefined)
  ELSE IF detailResponseData.valid THEN Return(detailResponseData.uuid)
  ELSE Throw(ValidationFailed(detailResponseData.url))

\* successFunc of waitForApproval
\* Variant of approvalSuccessFunc with a terminal-failure branch.
approvalSuccessFunc_FailsOnDisabled(detailResponseData) ==
  IF /\ Truthy(detailResponseData.file)
     /\ detailResponseData.file[1].status = <<"public">>
  THEN Return(detailResponseData.file[1].url)
  ELSE IF /\ Truthy(detailResponseData.file)
          /\ detailResponseData.file[1].status = <<"disabled">>
  THEN Throw(<<"Approval failed">>)
  ELSE Return(Undefined)

\* The predicate passed to waitRetry by waitForApproval.
approvalSuccessFunc(detailResponseData) ==
  IF /\ Truthy(detailResponseData.file)
     /\ detailResponseData.file[1].status = <<"public">>
  THEN Return(detailResponseData.file[1].url)
  ELSE Return(Undefined)

successFunc(context, data) ==
  IF context = Validation THEN validationSuccessFunc(data)
  ELSE approvalSuccessFunc(data)

\* The body of pollStatus after `await this.fetchJson(...)` ended with out.
pollStatus(w, out) ==
  IF out.t = "throw" THEN pollCatch(w, out.err)
  ELSE LET success == successFunc(w.context, out.value) IN
       IF success.t = "throw" THEN pollCatch(w, success.err)
       ELSE IF Truthy(success.value) THEN pollSuccess(w, success.value)
       ELSE pollAgain(w, success.value)

PollKind(context) == IF context = Validation THEN "validation" ELSE "approval"

PollBodies(context) ==
  IF context = Validation THEN ValidationBodies ELSE ApprovalBodies

(***************************************************************************)
(* The workflow: signAddon, postNewAddon, putVersion                       *)
(***************************************************************************)
XpiPath == <<"pkg.xpi">>

StatErrors == {<<"ENOENT">>, <<"Error: not a file: ">> \o XpiPath}

StatFailed(statError) == <<"error with ">> \o XpiPath \o <<": ">> \o statError

InvalidBaseUrl == <<"Invalid AMO API base URL: ", "not a url">>

TypeError == <<"TypeError">>

WriteFileError == <<"EACCES">>

\* Variant of DownloadFailed that does not name the file.
DownloadFailed_Unnamed(name) == <<"Downloading failed">>

DownloadFailed(name) == <<"Downloading ">> \o name \o <<" failed">>

IsAbsoluteUrl(u) == Len(u) > 1 /\ u[1] = "https:"

\* Variant of versionObject that ignores the channel.
versionObject_AlwaysCurrent(ch) == "current_version"

\* Name of the create response's field that holds the new version.
versionObject(ch) ==
  IF ch = <<"listed">> THEN "current_version" ELSE "latest_unlisted_version"

\* The version object of the create response data selected by channel ch.
VersionOf(data, ch) ==
  IF versionObject(ch) = "current_version" THEN data.current_version
  ELSE data.latest_unlisted_version

\* Variant of firstVersionId that takes the last entry of the listing.
firstVersionId_TakesLast(results) == results[Len(results)].id

\* putVersion: `results: [{ id: newVersionId }]`
firstVersionId(results) == results[1].id

\* waitForApproval called by postNewAddon / putVersion for (aid, vid).
waitForApproval(w, aid, vid) ==
  [wf |-> [w EXCEPT !.addonId = aid, !.newVersionId = vid,
                    !.pc = "waitForApproval"],
   wr |-> waitRetry(Approval),
   req |-> fetch("approval", aid, vid)]

\* The code after `await this.doUploadSubmit(...)` and after
\* `await this.waitForApproval(...)`, run when the waitRetry promise r
\* settles while the call w awaits it.
afterWaitRetry(w, r) ==
  IF r.outcome /= "resolved" THEN [wf |-> reject(w, r.err), req |-> NoReq]
  ELSE IF r.context = Validation
  THEN IF id = Undefined
       THEN [wf |-> [w EXCEPT !.uploadUuid = r.value, !.pc = "doNewAddonSubmit"],
             req |-> fetch("create", Undefined, 0)]
       ELSE [wf |-> [w EXCEPT !.uploadUuid = r.value,
                              !.pc = "doNewAddonOrVersionSubmit"],
             req |-> fetch("put", id, 0)]
  ELSE IF ~IsAbsoluteUrl(r.value)
       THEN [wf |-> reject(w, TypeError), req |-> NoReq]
       ELSE [wf |-> [w EXCEPT !.filename = <<Last(r.value)>>,
                              !.pc = "downloadSignedFile"],
             req |-> fetch("download", w.addonId, 0)]

\* Caller-supplied metadata: a field of its own and an optional version
\* object, which may carry an upload of its own besides another field.
MetaDatas ==
  {[name |-> <<"My Add-on">>, version |-> v] :
     v \in {<<>>,
            <<[upload |-> <<"caller-upload">>, license |-> <<"MPL-2.0">>]>>}}

\* `{ upload: uuid, ...metaDataJson.version }`: the spread comes last.
mergeVersion(upload, version) ==
  IF version = <<>> THEN [upload |-> upload, license |-> Undefined]
  ELSE [upload |-> IF version[1].upload /= Undefined
                   THEN version[1].upload ELSE upload,
        license |-> version[1].license]

\* jsonData of doNewAddonSubmit and of doNewAddonOrVersionSubmit.
submitJson(upload, meta) ==
  [name |-> meta.name, version |-> mergeVersion(upload, meta.version)]

\* What is remembered of a plain this.fetch: its error, or whether the
\* response was ok and whether its status was a failure status (4xx, 5xx).
FetchCall(fr) ==
  IF fr.t = "throw" THEN fr
  ELSE [t |-> "response", ok |-> fr.response.ok,
        failure |-> fr.response.status >= 400]

\* Variant of persistId that writes nothing.
persistId_Skips(ids, guid) == ids

\* saveIdToFile: the id is written to the file.
persistId(ids, guid) == Append(ids, guid)

\* Variant of Signed in which a fetch reuses the token of the fetch before.
Signed_ReusesToken(r) == 0

\* One more getAuthHeader call when r is a newly started fetch.
Signed(r) == IF r.kind = "none" THEN 0 ELSE 1

Init ==
  /\ id \in Ids
  /\ channel \in Channels
  /\ wf = NewCall
  /\ savedIds = <<>>
  /\ req = NoReq
  /\ sent = <<>>
  /\ tokens = 0
  /\ wr = NoWait
  /\ validated = FALSE
  /\ createData = <<>>
  /\ listingData = <<>>
  /\ lastFetchJson = NoFetchJsonCall
  /\ metaDataJson \in MetaDatas
  /\ jsonData = <<>>
  /\ putResult = <<>>
  /\ downloadResult = <<>>

\* signAddon up to the first await inside postNewAddon / putVersion:
\* stat of the xpi, parsing of the base URL, then doUploadSubmit's request.
signAddon ==
  /\ wf.pc = "signAddon"
  /\ \E stat \in {<<>>} \cup StatErrors, urlOk \in BOOLEAN :
       IF stat /= <<>>
       THEN wf' = reject(wf, StatFailed(stat)) /\ UNCHANGED <<req, tokens>>
       ELSE IF ~urlOk
       THEN wf' = reject(wf, InvalidBaseUrl) /\ UNCHANGED <<req, tokens>>
       ELSE /\ wf' = [wf EXCEPT !.pc = "doUploadSubmit"]
            /\ req' = fetch("upload", Undefined, 0)
            /\ tokens' = tokens + 1
  /\ UNCHANGED <<metaDataJson, jsonData, putResult, downloadResult>>
  /\ UNCHANGED <<id, channel, savedIds, sent, wr, validated, createData,
                 listingData, lastFetchJson>>

\* Client.fetch after getAuthHeader resolved: the request is sent.
nodeFetch ==
  /\ req.phase = "signing"
  /\ req' = [req EXCEPT !.phase = "sent"]
  /\ sent' = Append(sent, req.kind)
  /\ UNCHANGED <<metaDataJson, jsonData, putResult, downloadResult>>
  /\ UNCHANGED <<id, channel, wf, savedIds, tokens, wr, validated, createData,
                 listingData, lastFetchJson>>

\* doUploadSubmit after its fetchJson: waitForValidation starts waitRetry.
doUploadSubmit ==
  /\ wf.pc = "doUploadSubmit"
  /\ \E fr \in FetchResults(req, UploadBodies) :
       LET out == fetchJson(fr, BadRequest) IN
       /\ lastFetchJson' = FetchJsonCall(fr, BadRequest)
       /\ IF out.t = "throw"
          THEN /\ wf' = reject(wf, out.err)
               /\ req' = NoReq
               /\ UNCHANGED <<wr, tokens>>
          ELSE /\ wf' = [wf EXCEPT !.uuid = out.value.uuid,
                                   !.pc = "waitForValidation"]
               /\ wr' = waitRetry(Validation)
               /\ req' = fetch("validation", Undefined, 0)
               /\ tokens' = tokens + 1
  /\ UNCHANGED <<metaDataJson, jsonData, putResult, downloadResult>>
  /\ UNCHANGED <<id, channel, savedIds, sent, validated, createData, listingData>>

\* The abort timer of waitRetry fires.
abortTimeout ==
  /\ wr.abortTimeout = "pending"
  /\ wr' = abortTimeoutFired(wr)
  /\ wf' = IF wr.outcome = "pending" /\ wr'.outcome /= "pending"
           THEN reject(wf, wr'.err) ELSE wf
  /\ UNCHANGED <<metaDataJson, jsonData, putResult, downloadResult>>
  /\ UNCHANGED <<id, channel, savedIds, req, sent, tokens, validated,
                 createData, listingData, lastFetchJson>>

\* The interval timer of waitRetry fires: pollStatus is called again.
checkTimeout ==
  /\ wr.checkTimeout = "pending"
  /\ wr.polls < MaxPolls
  /\ wr' = [wr EXCEPT !.checkTimeout = "fired", !.polls = @ + 1]
  /\ req' = fetch(PollKind(wr.context), wf.addonId, wf.newVersionId)
  /\ tokens' = tokens + 1
  /\ UNCHANGED <<metaDataJson, jsonData, putResult, downloadResult>>
  /\ UNCHANGED <<id, channel, wf, savedIds, sent, validated, createData,
                 listingData, lastFetchJson>>

\* The fetchJson of pollStatus ends; the rest of pollStatus runs, and the
\* caller of waitRetry resumes if this settled the promise.
pollResponse ==
  /\ req.kind \in {"validation", "approval"}
  /\ \E fr \in FetchResults(req, PollBodies(wr.context)) :
       LET out == fetchJson(fr, GettingDetailsFailed)
           w == pollStatus(wr, out)
           next == IF wr.outcome = "pending" /\ w.outcome /= "pending"
                   THEN afterWaitRetry(wf, w)
                   ELSE [wf |-> wf, req |-> NoReq]
       IN /\ wr' = w
          /\ wf' = next.wf
          /\ req' = next.req
          /\ tokens' = tokens + Signed(next.req)
          /\ lastFetchJson' = FetchJsonCall(fr, GettingDetailsFailed)
          /\ jsonData' = IF next.req.kind \in {"create", "put"}
                         THEN <<submitJson(next.wf.uploadUuid, metaDataJson)>>
                         ELSE jsonData
          /\ validated' = (validated \/ (/\ wr.context = Validation
                                         /\ out.t = "return"
                                         /\ out.value.processed
                                         /\ out.value.valid))
  /\ UNCHANGED <<metaDataJson, putResult, downloadResult>>
  /\ UNCHANGED <<id, channel, savedIds, sent, createData, listingData>>

\* postNewAddon after `await this.doNewAddonSubmit(...)`: the destructuring
\* of guid and of the id under the channel's version object.
doNewAddonSubmit ==
  /\ wf.pc = "doNewAddonSubmit"
  /\ \E fr \in FetchResults(req, CreateBodies) :
       LET out == fetchJson(fr, BadRequest) IN
       /\ lastFetchJson' = FetchJsonCall(fr, BadRequest)
       /\ IF out.t = "throw"
          THEN wf' = reject(wf, out.err) /\ UNCHANGED createData
          ELSE /\ createData' = <<out.value>>
               /\ IF ~Truthy(VersionOf(out.value, channel))
                  THEN wf' = reject(wf, TypeError)
                  ELSE wf' = [wf EXCEPT
                                !.addonId = out.value.guid,
                                !.newVersionId = VersionOf(out.value, channel)[1].id,
                                !.pc = "saveIdToFile"]
  /\ req' = NoReq
  /\ UNCHANGED <<metaDataJson, jsonData, putResult, downloadResult>>
  /\ UNCHANGED <<id, channel, savedIds, sent, tokens, wr, validated, listingData>>

\* postNewAddon after `await saveIdToFileFunc(...)`: waitForApproval starts.
saveIdToFile ==
  /\ wf.pc = "saveIdToFile"
  /\ \E written \in BOOLEAN :
       IF ~written
       THEN wf' = reject(wf, WriteFileError) /\ UNCHANGED <<savedIds, wr, req, tokens>>
       ELSE LET next == waitForApproval(wf, wf.addonId, wf.newVersionId) IN
            /\ savedIds' = persistId(savedIds, wf.addonId)
            /\ wf' = next.wf
            /\ wr' = next.wr
            /\ req' = next.req
            /\ tokens' = tokens + 1
  /\ UNCHANGED <<metaDataJson, jsonData, putResult, downloadResult>>
  /\ UNCHANGED <<id, channel, sent, validated, createData, listingData,
                 lastFetchJson>>

\* putVersion after `await this.doNewAddonOrVersionSubmit(...)`, which is a
\* plain this.fetch: the listing request follows whatever the response is.
doNewAddonOrVersionSubmit ==
  /\ wf.pc = "doNewAddonOrVersionSubmit"
  /\ \E fr \in FetchResults(req, {NoJson}) :
       /\ putResult' = <<FetchCall(fr)>>
       /\ IF fr.t = "throw"
          THEN wf' = reject(wf, fr.err) /\ req' = NoReq /\ UNCHANGED tokens
          ELSE /\ wf' = [wf EXCEPT !.pc = "listVersions"]
               /\ req' = fetch("listing", id, 0)
               /\ tokens' = tokens + 1
  /\ UNCHANGED <<metaDataJson, jsonData, downloadResult>>
  /\ UNCHANGED <<id, channel, savedIds, sent, wr, validated, createData,
                 listingData, lastFetchJson>>

\* putVersion after the listing's fetchJson: the id of the first result.
listVersions ==
  /\ wf.pc = "listVersions"
  /\ \E fr \in FetchResults(req, ListingBodies) :
       LET out == fetchJson(fr, BadRequest) IN
       /\ lastFetchJson' = FetchJsonCall(fr, BadRequest)
       /\ IF out.t = "throw"
          THEN /\ wf' = reject(wf, out.err)
               /\ req' = NoReq
               /\ UNCHANGED <<listingData, wr, tokens>>
          ELSE /\ listingData' = <<out.value>>
               /\ IF out.value.results = <<>>
                  THEN /\ wf' = reject(wf, TypeError)
                       /\ req' = NoReq
                       /\ UNCHANGED <<wr, tokens>>
                  ELSE LET next == waitForApproval(wf, id, firstVersionId(out.value.results))
                       IN /\ wf' = next.wf
                          /\ wr' = next.wr
                          /\ req' = next.req
                          /\ tokens' = tokens + 1
  /\ UNCHANGED <<metaDataJson, jsonData, putResult, downloadResult>>
  /\ UNCHANGED <<id, channel, savedIds, sent, validated, createData>>

\* downloadSignedFile after `await this.fetch(fileUrl)`, with saveToFile.
downloadSignedFile ==
  /\ wf.pc = "downloadSignedFile"
  /\ \E fr \in FetchResults(req, DownloadBodies), saved \in BOOLEAN :
       /\ downloadResult' =
            <<[fetched |-> FetchCall(fr),
               body |-> fr.t = "response" /\ fr.response.body.present,
               saved |-> saved]>>
       /\ IF \/ fr.t = "throw"
             \/ ~fr.response.ok
             \/ ~fr.response.body.present
             \/ ~saved
          THEN wf' = reject(wf, DownloadFailed(wf.filename))
          ELSE wf' = [wf EXCEPT
                        !.pc = "resolved",
                        !.result = Return([id |-> wf.addonId,
                                           downloadedFiles |-> <<wf.filename>>])]
  /\ req' = NoReq
  /\ UNCHANGED <<metaDataJson, jsonData, putResult>>
  /\ UNCHANGED <<id, channel, savedIds, sent, tokens, wr, validated,
                 createData, listingData, lastFetchJson>>

Next ==
  \/ signAddon
  \/ nodeFetch
  \/ doUploadSubmit
  \/ abortTimeout
  \/ checkTimeout
  \/ pollResponse
  \/ doNewAddonSubmit
  \/ saveIdToFile
  \/ doNewAddonOrVersionSubmit
  \/ listVersions
  \/ downloadSignedFile

Spec == Init /\ [][Next]_vars

\* The event loop runs the callback of a timer that stays set: an abort
\* timer set by setTimeout (line 144) and never cleared fires. Nothing is
\* assumed of the server: a request may stay unanswered forever.
FairSpec == Spec /\ WF_vars(abortTimeout)

TypeOK ==
  /\ wf.pc \in {"signAddon", "doUploadSubmit", "waitForValidation",
                "doNewAddonSubmit", "saveIdToFile", "doNewAddonOrVersionSubmit",
                "listVersions", "waitForApproval", "downloadSignedFile",
                "resolved", "rejected"}
  /\ wr.outcome \in {"none", "pending", "resolved", "timeout", "error"}
  /\ wr.polls <= MaxPolls
  /\ tokens >= Len(sent)

(***************************************************************************)
(* Properties                                                              *)
(***************************************************************************)
\* A request of one of kinds has been started (getAuthHeader called) or sent.
Issued(kinds) ==
  \/ req.kind \in kinds
  \/ \E i \in 1..Len(sent) : sent[i] \in kinds

\* Number of requests of kind k handed to nodeFetch.
Count(k) == Cardinality({i \in 1..Len(sent) : sent[i] = k})

Settled == {"resolved", "timeout", "error"}

\* C1: no create, update or approval poll request is issued before a
\* validation poll returned processed = true and valid = true, and none is
\* ever issued once validation ended by timeout, HTTP error or rejection.
C1_SubmitOnlyAfterValidation ==
  /\ Issued({"create", "put", "approval"}) => validated
  /\ (wr.context = Validation /\ wr.outcome \in {"timeout", "error"})
       => ~Issued({"create", "put", "approval"})

C1_Witness ==
  /\ validated
  /\ Count("approval") > 0
  /\ Count("validation") > 1

\* C2: a resolved waitRetry call resolved with the first truthy value its
\* predicate returned: the k earlier polls all returned a falsy value, the
\* k+1 polls are all the GET requests of the call, the result is the value
\* of poll k+1, and no request or timer of the call is left.
C2_ResolvesWithFirstTruthy ==
  wr.outcome = "resolved" =>
    /\ Len(wr.returned) = wr.polls
    /\ Count(PollKind(wr.context)) = wr.polls
    /\ wr.value = wr.returned[wr.polls]
    /\ Truthy(wr.value)
    /\ \A i \in 1..(wr.polls - 1) : ~Truthy(wr.returned[i])
    /\ req.kind /= PollKind(wr.context)
    /\ wr.checkTimeout /= "pending"

C2_Witness ==
  /\ wr.outcome = "resolved"
  /\ wr.polls = 2
  /\ wf.pc \in {"doNewAddonSubmit", "downloadSignedFile"}

\* C3: the abort timer rejects the call with the timeout error naming the
\* context, and after that rejection pollStatus is never called again.
C3_NoPollAfterTimeout ==
  [][/\ (wr.abortTimeout = "pending" /\ wr'.abortTimeout = "fired")
          => /\ wr'.outcome = "timeout"
             /\ wr'.err = wr.context \o <<": timeout.">>
             /\ wf'.result = Throw(wr'.err)
     /\ wr.outcome = "timeout" => wr'.polls = wr.polls]_vars

\* C4: a settled waitRetry call keeps its outcome, value and error whatever
\* arrives later, the outcome it settled with is the one its caller gets,
\* and the caller is resumed once only.
C4_ExactlyOneOutcome ==
  [][/\ (wr.outcome \in Settled /\ wr'.context = wr.context)
          => /\ wr'.outcome = wr.outcome
             /\ wr'.value = wr.value
             /\ wr'.err = wr.err
     /\ (wr.outcome = "pending" /\ wr'.outcome \in {"timeout", "error"})
          => wf'.result = Throw(wr'.err)
     /\ wf.pc \in {"rejected", "resolved"} => wf' = wf]_vars

\* The predicate returned a truthy value after the timeout had rejected.
C4_Witness ==
  /\ wr.outcome = "timeout"
  /\ wr.returned /= <<>>
  /\ Truthy(wr.returned[Len(wr.returned)])
  /\ wf.result = Throw(wr.err)

\* A step in which the fetchJson of pollStatus ended and pollStatus ran on.
PollEnded ==
  /\ req.kind \in {"validation", "approval"}
  /\ req'.kind \notin {"validation", "approval"}

\* The poll that just ended failed: its request failed, or the predicate
\* of waitForValidation threw on a processed, invalid upload.
PollThrew ==
  \/ lastFetchJson'.out.t = "throw"
  \/ /\ wr.context = Validation
     /\ lastFetchJson'.out.value.processed
     /\ ~lastFetchJson'.out.value.valid

PollThrown ==
  IF lastFetchJson'.out.t = "throw" THEN lastFetchJson'.out.err
  ELSE <<"Validation failed, open the following URL for more information: ">>
         \o lastFetchJson'.out.value.url

\* C5: a poll that fails leaves the abort timer cancelled and no further
\* poll scheduled or started, and rejects a call that was still pending,
\* and with it the workflow, with the error that was thrown; the interval
\* timer is only set after the predicate returned a falsy value.
C5_ErrorRejectsImmediately ==
  [][PollEnded =>
       /\ PollThrew =>
            /\ wr'.abortTimeout /= "pending"
            /\ wr'.checkTimeout /= "pending"
            /\ req'.kind = "none"
            /\ wr'.polls = wr.polls
            /\ wr.outcome = "pending" =>
                 /\ wr'.outcome = "error"
                 /\ wr'.err = PollThrown
                 /\ wf'.result = Throw(PollThrown)
       /\ wr'.checkTimeout = "pending" =>
            /\ ~PollThrew
            /\ Len(wr'.returned) = Len(wr.returned) + 1
            /\ ~Truthy(wr'.returned[Len(wr'.returned)])]_vars

\* An approval poll failed with an HTTP status error before the timeout.
C5_Witness ==
  /\ wr.context = Approval
  /\ wr.outcome = "error"
  /\ wr.abortTimeout = "cleared"
  /\ wr.polls > 1
  /\ lastFetchJson.fr.t = "response"
  /\ wf.result = Throw(wr.err)

\* C6: once a waitRetry call has settled, neither of its timers is pending
\* and the interval timer's callback does not run.
C6_TimersClearedOnExit ==
  [][(wr'.outcome \in Settled /\ wr'.context = wr.context) =>
       /\ wr'.abortTimeout /= "pending"
       /\ wr'.checkTimeout /= "pending"
       /\ wr.outcome \in Settled => wr'.polls = wr.polls]_vars

\* Position in sent of the first request of kind k (0 if there is none).
FirstSent(k) ==
  IF Count(k) = 0 THEN 0
  ELSE CHOOSE i \in 1..Len(sent) :
         sent[i] = k /\ \A j \in 1..(i - 1) : sent[j] /= k

\* C7: without a record id the create request follows validation (unless
\* the signing of its token fails), the
\* update and the listing request are never issued, and the version polled
\* for approval is the id under current_version of the create response when
\* channel is "listed" and the id under latest_unlisted_version otherwise.
C7_CreatePath ==
  id = <<>> =>
    /\ ~Issued({"put", "listing"})
    /\ (wr.context = <<"Validation">> /\ wr.outcome = "resolved")
         => Issued({"create"}) \/ wf.result = Throw(<<"signJWT failed">>)
    /\ Issued({"approval"}) =>
         /\ Count("create") = 1
         /\ createData /= <<>>
         /\ <<[id |-> wf.newVersionId]>> =
              IF channel = <<"listed">>
              THEN createData[1].current_version
              ELSE createData[1].latest_unlisted_version
    /\ req.kind = "approval" => req.versionId = wf.newVersionId

\* An unlisted create whose response carries both version objects.
C7_Witness ==
  /\ id = <<>>
  /\ channel = <<"beta">>
  /\ req.kind = "approval"
  /\ req.phase = "sent"
  /\ createData[1].current_version /= <<>>

\* C8: with a record id the update request follows validation (unless the
\* signing of its token fails), the listing
\* request follows the update request, the create request is never issued,
\* the version polled for approval is the id of the first entry of the
\* listing, and the record id of every later request and of the result is
\* the supplied id.
C8_UpdatePath ==
  id /= <<>> =>
    /\ ~Issued({"create"})
    /\ (wr.context = <<"Validation">> /\ wr.outcome = "resolved")
         => Issued({"put"}) \/ wf.result = Throw(<<"signJWT failed">>)
    /\ Issued({"listing"}) => Count("put") = 1
    /\ Count("listing") > 0 => FirstSent("put") < FirstSent("listing")
    /\ Issued({"approval"}) =>
         /\ Count("listing") = 1
         /\ listingData /= <<>>
         /\ [id |-> wf.newVersionId] = Head(listingData[1].results)
         /\ wf.addonId = id
    /\ req.kind \in {"put", "listing", "approval", "download"}
         => req.addonId = id
    /\ req.kind = "approval" => req.versionId = wf.newVersionId
    /\ wf.pc = "resolved" => wf.result.value.id = id

\* An update whose listing has two entries ran to the end.
C8_Witness ==
  /\ id /= <<>>
  /\ wf.pc = "resolved"
  /\ Len(listingData[1].results) = 2

\* The latest poll was a validation poll that returned data d.
ValidationReturned(d) ==
  /\ wr.context = <<"Validation">>
  /\ lastFetchJson'.out = Return(d)

\* C9: a validation poll that returns processed = true and valid = false
\* is not repeated and rejects the pending workflow with an error embedding
\* the response's url; after that rejection no poll, create, update,
\* approval or download request is issued; a validation poll that returns
\* processed = false schedules the next poll.
C9_ValidationRejectionTerminal ==
  [][/\ PollEnded =>
          \A d \in {b.json : b \in ValidationBodies \ {NoJson}} :
            ValidationReturned(d) =>
              /\ (d.processed /\ ~d.valid) =>
                   /\ wr'.checkTimeout /= "pending"
                   /\ req'.kind = "none"
                   /\ wr.outcome = "pending" =>
                        /\ wf'.pc = "rejected"
                        /\ wf'.result.err =
                             <<"Validation failed, open the following URL for more information: ">>
                               \o d.url
              /\ ~d.processed => wr'.checkTimeout = "pending"
     /\ (wf.pc = "rejected" /\ wf.result.err[1] =
            "Validation failed, open the following URL for more information: ")
          => /\ wr'.polls = wr.polls
             /\ req'.kind = "none"
             /\ ~Issued({"create", "put", "listing", "approval", "download"})]_vars

\* The second validation poll returned a rejection.
C9_Witness ==
  /\ wf.pc = "rejected"
  /\ wf.result.err =
       <<"Validation failed, open the following URL for more information: ">>
         \o ValidationUrl
  /\ wr.polls = 2

\* C10: for a response with status below 200, at least 500, or marked
\* not-ok, fetchJson throws the error made of the error context and the
\* status text (the status if the text is empty); it returns the parsed
\* body exactly when the response is ok.
C10_FetchJsonClassifies ==
  (lastFetchJson.called /\ lastFetchJson.fr.t = "response") =>
    LET response == lastFetchJson.fr.response
        out == lastFetchJson.out
    IN /\ (response.status < 200 \/ response.status >= 500 \/ ~response.ok)
            => /\ out.t = "throw"
               /\ out.err = lastFetchJson.errorMsg \o <<": ">> \o
                    (IF response.statusText /= <<>> THEN response.statusText
                     ELSE <<StatusStr(response.status)>>) \o <<".">>
       /\ response.ok <=> out.t = "return"
       /\ out.t = "return" => out.value = response.body.json

\* C11: every request handed to nodeFetch has a getAuthHeader call of its
\* own: the calls made are the requests sent, plus the fetch that is still
\* signing, plus the one call that failed; a signing failure sends nothing,
\* ends all polling and rejects (or leaves rejected) the workflow.
C11_OneTokenPerRequest ==
  /\ [](/\ req.phase = "sent" => tokens = Len(sent)
        /\ req.phase = "signing" => tokens = Len(sent) + 1
        /\ req.phase = "none" =>
             \/ tokens = Len(sent)
             \/ /\ tokens = Len(sent) + 1
                /\ wf.pc = "rejected"
                /\ wr.checkTimeout /= "pending")
  /\ [][/\ Len(sent') > Len(sent) =>
             /\ req.phase = "signing"
             /\ Len(sent') = Len(sent) + 1
             /\ tokens' = tokens
        /\ (req.phase = "signing" /\ req' = NoReq) =>
             /\ sent' = sent
             /\ wf'.pc = "rejected"
             /\ wf.pc /= "rejected" =>
                  wf'.result.err \in {<<"signJWT failed">>,
                                      <<"Downloading ", "signed.xpi", " failed">>}]_vars

\* The token of the third approval poll could not be signed.
C11_Witness ==
  /\ wr.context = <<"Approval">>
  /\ wr.polls = 3
  /\ Count("approval") = 2
  /\ tokens = Len(sent) + 1
  /\ wf.result = Throw(<<"signJWT failed">>)

\* A step in which the promise of signAddon is rejected.
Rejects == wf.pc /= "rejected" /\ wf'.pc = "rejected"

\* The error raised in a rejecting step taken from a stage after signAddon's
\* own checks and before the download.
Raised ==
  CASE wf.pc = "saveIdToFile" -> <<"EACCES">>
    [] wf.pc = "doNewAddonOrVersionSubmit" -> putResult'[1].err
    [] wf.pc \in {"doUploadSubmit", "doNewAddonSubmit", "listVersions"} ->
         IF lastFetchJson'.out.t = "throw" THEN lastFetchJson'.out.err
         ELSE <<"TypeError">>
    [] wf.pc \in {"waitForValidation", "waitForApproval"} ->
         IF wr'.outcome = "timeout" THEN wr.context \o <<": timeout.">>
         ELSE IF PollThrew THEN PollThrown
         ELSE <<"TypeError">>

\* C12 as stated: every error but a streaming failure reaches the caller of
\* signAddon as it was raised, stat failures, an invalid base URL and token
\* signing failures included.
C12_AllErrorsUnchanged ==
  [][Rejects =>
       CASE wf.pc = "signAddon" ->
              wf'.result.err \in StatErrors \cup {<<"TypeError: Invalid URL">>}
         [] wf.pc = "downloadSignedFile" ->
              IF downloadResult'[1].fetched.t = "throw"
              THEN wf'.result.err = downloadResult'[1].fetched.err
              ELSE TRUE
         [] OTHER -> wf'.result.err = Raised]_vars

\* C12, amended: an error raised while signAddon is pending reaches its
\* caller unchanged, except that a stat failure and an invalid base URL
\* are replaced by errors embedding the path and cause, or the URL, and
\* that every failure of the download stage is replaced by the generic
\* download error.
C12_ErrorsReachCaller ==
  [][Rejects =>
       CASE wf.pc = "signAddon" ->
              wf'.result.err \in
                {<<"error with ", "pkg.xpi", ": ">> \o e : e \in StatErrors}
                  \cup {<<"Invalid AMO API base URL: ", "not a url">>}
         [] wf.pc = "downloadSignedFile" ->
              wf'.result.err = <<"Downloading ">> \o wf.filename \o <<" failed">>
         [] OTHER -> wf'.result.err = Raised]_vars

\* The listing request was answered with a status error, which rejected
\* the workflow.
C12_Witness ==
  /\ wf.pc = "rejected"
  /\ Count("listing") = 1
  /\ lastFetchJson.fr.t = "response"
  /\ ~lastFetchJson.fr.response.ok
  /\ lastFetchJson.fr.response.body.parses
  /\ wf.result = lastFetchJson.out

\* The download that just ended got an ok response with a body and
\* streamed it to the file.
Downloaded ==
  /\ downloadResult'[1].fetched.t = "response"
  /\ downloadResult'[1].fetched.ok
  /\ downloadResult'[1].body
  /\ downloadResult'[1].saved

\* The record id of the run: the supplied id, or the created guid.
RecordId == IF id /= <<>> THEN id ELSE createData[1].guid

\* C13: the download stage ends either with the result {id: recordId,
\* downloadedFiles: [filename]}, when the response is ok, has a body and is
\* streamed to the file, or with the error "Downloading <filename> failed",
\* filename being the last segment of the signed URL; the workflow returns
\* a result in no other way.
C13_DownloadOutcome ==
  [][/\ (wf.pc = "downloadSignedFile" /\ wf'.pc /= wf.pc) =>
          IF Downloaded
          THEN wf'.result =
                 Return([id |-> RecordId,
                         downloadedFiles |-> <<<<wr.value[Len(wr.value)]>>>>])
          ELSE /\ wf'.pc = "rejected"
               /\ wf'.result =
                    Throw(<<"Downloading ", wr.value[Len(wr.value)], " failed">>)
     /\ (wf.result.t = "pending" /\ wf'.result.t = "return") =>
          /\ wf.pc = "downloadSignedFile"
          /\ Downloaded]_vars

\* An ok response with a body whose streaming to the file failed.
C13_Witness ==
  /\ wf.pc = "rejected"
  /\ downloadResult /= <<>>
  /\ downloadResult[1].fetched.t = "response"
  /\ downloadResult[1].fetched.ok
  /\ downloadResult[1].body
  /\ ~downloadResult[1].saved
  /\ wf.result = Throw(<<"Downloading ", "signed.xpi", " failed">>)

\* C14: only the create path persists an id; it persists the guid of the
\* create response, once, after the create request succeeded and before an
\* approval poll is issued; when the write fails nothing is persisted and
\* no approval poll or download is issued.
C14_IdPersistedOnce ==
  /\ id /= <<>> => savedIds = <<>>
  /\ Len(savedIds) <= 1
  /\ savedIds /= <<>> =>
       /\ Count("create") = 1
       /\ createData /= <<>>
       /\ savedIds = <<createData[1].guid>>
  /\ (id = <<>> /\ Issued({"approval", "download"})) => savedIds /= <<>>
  /\ wf.result = Throw(<<"EACCES">>) =>
       /\ savedIds = <<>>
       /\ ~Issued({"approval", "download"})

\* The id is on file while the first approval poll is not yet sent.
C14_Witness ==
  /\ id = <<>>
  /\ savedIds = <<<<"generated@id">>>>
  /\ req.kind = "approval"
  /\ req.phase = "signing"
  /\ Count("approval") = 0

FileUrl(data) ==
  IF data.file /= <<>> /\ data.file[1].status = <<"public">>
  THEN data.file[1].url
  ELSE Undefined

\* C16: for an approval poll whose fetchJson returned, the predicate returns
\* the file's url when the file's status is "public" and a falsy value
\* otherwise, a missing file object and every other status included: a
\* truthy url resolves a pending call with that url, a falsy value leaves
\* the call's outcome as it was and schedules the next poll; an approval
\* call is rejected only by its abort timer or by a fetchJson that threw.
C16_ApprovalNeverFails ==
  [][/\ (PollEnded /\ wr.context = <<"Approval">>
           /\ lastFetchJson'.out.t = "return") =>
          LET url == FileUrl(lastFetchJson'.out.value)
          IN /\ wr'.returned = Append(wr.returned, url)
             /\ (Truthy(url) /\ wr.outcome = "pending") =>
                  /\ wr'.outcome = "resolved"
                  /\ wr'.value = url
             /\ ~Truthy(url) =>
                  /\ wr'.outcome = wr.outcome
                  /\ wr'.checkTimeout = "pending"
             /\ wr'.outcome = "error" => wr.outcome = "error"
     /\ (wr.context = <<"Approval">> /\ wr.outcome = "pending"
           /\ wr'.outcome \in {"timeout", "error"}) =>
          \/ /\ wr'.outcome = "timeout"
             /\ wr.abortTimeout = "pending"
             /\ wr'.abortTimeout = "fired"
          \/ /\ wr'.outcome = "error"
             /\ PollEnded
             /\ lastFetchJson'.out.t = "throw"
             /\ wr'.err = lastFetchJson'.out.err]_vars

\* Every approval poll was answered with a disabled file, and the call
\* ended by its abort timer.
C16_Witness ==
  /\ wr.context = <<"Approval">>
  /\ wr.outcome = "timeout"
  /\ wr.polls = 2
  /\ wr.returned = <<Undefined, Undefined>>
  /\ lastFetchJson.out.t = "return"
  /\ lastFetchJson.out.value.file /= <<>>
  /\ lastFetchJson.out.value.file[1].status = <<"disabled">>

\* C17: the body of the create request and of the update request carries
\* version.upload equal to the uuid returned by validation, whatever the
\* caller's metadata, and keeps the caller's other fields.
C17_UploadIsValidatedUuid ==
  jsonData /= <<>> =>
    /\ jsonData[1].version.upload = wf.uploadUuid
    /\ jsonData[1].name = metaDataJson.name
    /\ metaDataJson.version /= <<>> =>
         jsonData[1].version.license = metaDataJson.version[1].license

\* C18: with a record id, the listing request, the approval polls and the
\* download are issued only after the update request was answered with a
\* success status; an update request answered with a status of 400 or more
\* rejects the workflow and no later request is issued.
C18_NoRequestAfterFailedPut ==
  id /= <<>> =>
    /\ Issued({"listing", "approval", "download"}) =>
         /\ putResult /= <<>>
         /\ putResult[1].t = "response"
         /\ putResult[1].ok
    /\ (/\ putResult /= <<>>
        /\ putResult[1].t = "response"
        /\ putResult[1].failure) =>
         /\ wf.pc = "rejected"
         /\ ~Issued({"listing", "approval", "download"})

\* A poll of the current waitRetry call is in flight.
PollInFlight == req.kind \in {"validation", "approval"}

\* Every value the predicate returned so far, the last possibly excepted,
\* was falsy.
FalsyUpTo(n) == \A i \in 1..n : ~Truthy(wr.returned[i])

\* C19: within one waitRetry call a poll in flight and a pending interval
\* timer exclude each other; while a poll is in flight every earlier poll
\* has ended with a falsy predicate result; while the timer is pending
\* every poll started has ended with a falsy result; a poll after the
\* first starts only on the firing of the timer, with no poll in flight.
C19_PollingSequential ==
  /\ [](/\ ~(PollInFlight /\ wr.checkTimeout = "pending")
        /\ PollInFlight =>
             /\ wr.polls = Len(wr.returned) + 1
             /\ FalsyUpTo(Len(wr.returned))
        /\ wr.checkTimeout = "pending" =>
             /\ wr.polls = Len(wr.returned)
             /\ FalsyUpTo(Len(wr.returned))
        /\ wr.outcome /= "none" =>
             /\ wr.polls - Len(wr.returned) \in {0, 1}
             /\ FalsyUpTo(Len(wr.returned) - 1))
  /\ [][(wr'.context = wr.context /\ wr'.polls > wr.polls) =>
          /\ ~PollInFlight
          /\ wr.checkTimeout = "pending"
          /\ wr'.checkTimeout = "fired"
          /\ wr.polls = Len(wr.returned)
          /\ FalsyUpTo(Len(wr.returned))
          /\ req'.kind = PollKind(wr.context)
          /\ req'.phase = "signing"]_vars

\* The third poll of a call is in flight after two falsy results.
C19_Witness ==
  /\ PollInFlight
  /\ req.phase = "sent"
  /\ wr.outcome = "pending"
  /\ wr.polls = 3
  /\ Len(wr.returned) = 2
  /\ wr.checkTimeout = "fired"

\* C20: every waitRetry call that is pending is eventually settled, whether
\* or not its requests are answered, as long as a set abort timer fires.
C20_WaitRetrySettles ==
  (wr.outcome = "pending") ~> (wr.outcome \in Settled)

\* The abort timer rejected the workflow while the second approval poll
\* was still unanswered.
C20_Witness ==
  /\ wr.context = <<"Approval">>
  /\ wr.outcome = "timeout"
  /\ wr.abortTimeout = "fired"
  /\ PollInFlight
  /\ req.phase = "sent"
  /\ wr.polls = 2
  /\ wf.result = Throw(<<"Approval", ": timeout.">>)

====
